---- MODULE Spec2Model ----
(***************************************************************************)
(* Model of core/tclient (client bootstrap, default middleware chain,      *)
(* reconnection backoff, authorization gate), of the extension commands    *)
(* and of the upload walker.                                               *)
(*                                                                         *)
(* The module holds several specifications over one set of variables; each *)
(* specification moves only the variables of the component it models:      *)
(*   Spec           New + RunWithAuth (bootstrap and authorization gate)   *)
(*   SpecChain      one RPC through the middleware chain of a built client *)
(*   SpecBackoff    the exponential backoff newBackoff configures          *)
(*   SpecReconnect  the connection loop of client.Run and its backoff      *)
(*   SpecRate       concurrent calls through the rate-limit stage          *)
(*   SpecRecover    one RPC with unexpected failures and the recovery stage*)
(*   SpecCancel     a run up to the authorization check, with cancellation *)
(*   SpecWalk       walk over a directory tree with include/exclude lists  *)
(*   SpecExt        one extension command: Install, Upgrade or Remove      *)
(***************************************************************************)
EXTENDS Integers, Sequences, FiniteSets, TLC

VARIABLES
    \* ---- bootstrap / authorization gate (Spec)
    opts,       \* the Options value handed to New
    env,        \* what the collaborators of New answer (clock, proxy construction)
    client,     \* the *telegram.Client New returned, or NoClient
    newErr,     \* the error New returned, or "nil"
    ctorCalls,  \* how often New called clock.NewNTP and netutil.NewProxy
    stores,     \* the two session stores: the caller's (real) and the in-memory one
    pc,         \* position of the RunWithAuth run
    status,     \* what client.Auth().Status returned in this run
    fCalls,     \* how often the supplied task f was invoked in this run
    fErr,       \* what f returned in this run: "none" until it has returned
    runResult,  \* the error RunWithAuth returned, or "nil"
    \* ---- one RPC through the middleware chain (SpecChain)
    rpc,        \* "idle", "running" or "done"
    rpcResult,  \* the error the chain returned to the caller
    depth,      \* the stage that holds control: 1..Len(chain), Len(chain)+1 = server
    phase,      \* "down" (calling next), "up" (next returned) or "sleep"
    ret,        \* the error travelling up the chain
    retries,    \* the retry stage's counter
    timer,      \* what is left of the flood-wait stage's timer
    hist,       \* what was observed of the RPC (history, read by the claims only)
    rec,        \* the recovery stage: its backoff, its timer, its counters
    ctxDone,    \* TRUE once the caller's cancellation signal fired
    \* ---- the exponential backoff and the reconnection loop (SpecBackoff, SpecReconnect)
    now,        \* the clock, in milliseconds
    bo,         \* the backoff.ExponentialBackOff value newBackoff returned
    last,       \* the last NextBackOff call: elapsed time, drawn interval, result
    conn,       \* the connection loop of client.Run: its state and its counters
    down,       \* TRUE once the transport fails for good
    \* ---- concurrent calls through the rate-limit stage (SpecRate)
    lim,        \* the rate.Limiter of the stage: tokens, last update, mutex holder
    calls,      \* the calls that arrive at the stage, each with its position
    sent,       \* how many calls were passed on to the server at each instant
    \* ---- the upload walker (SpecWalk)
    walkIn,     \* the arguments of walk and the directory tree it walks
    walkOut,    \* what walk returned: the files and the error
    \* ---- the extension commands (SpecExt)
    em,         \* the extensions.Manager: what it lists and how its calls end
    extCall,    \* the command that is run: Install, Upgrade or Remove, and its arguments
    extRes      \* what the command returned, called on the manager and printed

bootVars == <<opts, env, client, newErr, ctorCalls, stores, pc, status, fCalls, fErr, runResult>>

chainVars == <<rpc, rpcResult, depth, phase, ret, retries, timer, hist, rec, ctxDone>>

boVars == <<now, bo, last, conn, down>>

rateVars == <<lim, calls, sent>>

walkVars == <<walkIn, walkOut>>

extVars == <<em, extCall, extRes>>

vars == <<bootVars, chainVars, boVars, rateVars, walkVars, extVars>>

----------------------------------------------------------------------------
(* Bounds of the model *)

\* longest list of caller-supplied extra middlewares
MaxExtras == 2

\* most flood-wait signals the server sends during one RPC
MaxFloods == 2

\* longest wait, in seconds, a flood-wait signal carries
MaxWait == 2

\* how late, in seconds, the flood-wait timer's wake-up may be served
MaxOversleep == 1

\* how many seconds the clock of the backoff specifications runs
MaxSeconds == 5

\* the count of connection attempts stops here
MaxAttempts == 4

\* most unexpected failures raised during one RPC
MaxCrashes == 4

\* most failed dials before the connection on which the authorization check
\* is followed
MaxDialFailures == 0

\* most unexpected failures the authorization check meets
MaxCheckCrashes == 1

\* most transient failures the authorization check meets
MaxCheckTransients == 1

\* how many calls arrive at the rate-limit stage
MaxCalls == 6

\* how many half periods of the rate limit the clock of SpecRate runs
MaxHalfPeriods == 4

\* how many entries the walked directory holds at most
MaxEntries == 2

\* how many root paths walk is given at most
MaxRoots == 2

\* how many extensions the manager lists at most
MaxExts == 2

----------------------------------------------------------------------------
(* Options and the values New is called with *)

NoClient == [none |-> TRUE]

ExtraStages == {[kind |-> "extra", name |-> "A"], [kind |-> "extra", name |-> "B"]}

SeqsUpTo(S, n) == UNION {[1..k -> S] : k \in 0..n}

\* Options.Test: empty, or a test-account session token
TestTokens == {"", "testAuthorized", "testUnauthorized"}

\* what a session blob says about the account it belongs to
SessionData == {"authorized", "unauthorized"}

TokenData(tok) == IF tok = "testAuthorized" THEN "authorized" ELSE "unauthorized"

OptionsSet ==
    [NTP : {"", "ntp.example"},
     Proxy : {"", "socks5://proxy"},
     Test : TestTokens,
     Middlewares : SeqsUpTo(ExtraStages, MaxExtras),
     ReconnectTimeout : {0, 3000},
     Session : {"real"}]

----------------------------------------------------------------------------
(* NewDefaultMiddlewares and the chain New builds *)

\* retry.New(5): the attempt budget of the retry stage
RetryMax == 5

\* rate.Every(100*time.Millisecond): one token per 100 ms
RateEveryMs == 100

\* ratelimit.New(..., 5): the burst of the token bucket
RateBurst == 5

\* b.Multiplier = 1.1, in tenths
MultiplierTenths == 11

\* b.MaxInterval = 10 * time.Second, in milliseconds
MaxIntervalMs == 10000

\* backoff.NewExponentialBackOff(): DefaultInitialInterval, in milliseconds
InitialIntervalMs == 500

\* backoff.NewExponentialBackOff(): DefaultRandomizationFactor 0.5, in tenths
RandomizationTenths == 5

\* backoff.NewExponentialBackOff(): DefaultMaxInterval, in milliseconds
DefaultMaxIntervalMs == 60000

\* backoff.NewExponentialBackOff(): DefaultMaxElapsedTime, in milliseconds
DefaultMaxElapsedTimeMs == 900000

\* newBackoff without the assignment of line 108
newBackoffNoCeiling(timeout) ==
    [InitialInterval |-> InitialIntervalMs,
     RandomizationFactor |-> RandomizationTenths,
     Multiplier |-> MultiplierTenths,
     MaxInterval |-> DefaultMaxIntervalMs,
     MaxElapsedTime |-> timeout]

\* newBackoff without the assignment of line 107
newBackoffNoBudget(timeout) ==
    [InitialInterval |-> InitialIntervalMs,
     RandomizationFactor |-> RandomizationTenths,
     Multiplier |-> MultiplierTenths,
     MaxInterval |-> MaxIntervalMs,
     MaxElapsedTime |-> DefaultMaxElapsedTimeMs]

\* newBackoff(timeout): the exponential backoff with the fields New sets and
\* the library defaults for the fields it leaves alone
newBackoff(timeout) ==
    [InitialInterval |-> InitialIntervalMs,
     RandomizationFactor |-> RandomizationTenths,
     Multiplier |-> MultiplierTenths,
     MaxInterval |-> MaxIntervalMs,
     MaxElapsedTime |-> timeout]

RateLimitStage == [kind |-> "ratelimit", every |-> RateEveryMs, burst |-> RateBurst]

\* NewDefaultMiddlewares(ctx, timeout): recovery, retry(5), flood wait, in this order
NewDefaultMiddlewaresRetry4(timeout) ==
    << [kind |-> "recovery", backoff |-> newBackoff(timeout)],
       [kind |-> "retry", max |-> RetryMax - 1],
       [kind |-> "floodwait"] >>

NewDefaultMiddlewaresSwapped(timeout) ==
    << [kind |-> "recovery", backoff |-> newBackoff(timeout)],
       [kind |-> "floodwait"],
       [kind |-> "retry", max |-> RetryMax] >>

NewDefaultMiddlewares(timeout) ==
    << [kind |-> "recovery", backoff |-> newBackoff(timeout)],
       [kind |-> "retry", max |-> RetryMax],
       [kind |-> "floodwait"] >>

\* the test-session branch of New: which store the client uses
SessionStorageNoHook(o) == o.Session

SessionStorageOf(o) == IF o.Test # "" THEN "mem" ELSE o.Session

\* opts.Middlewares as New leaves it: defaults, then the caller's, then the
\* rate limit of the test branch
MiddlewaresExtrasFirst(o) ==
    (o.Middlewares \o NewDefaultMiddlewares(o.ReconnectTimeout))
        \o (IF o.Test # "" THEN <<RateLimitStage>> ELSE <<>>)

MiddlewaresAlwaysLimited(o) ==
    (NewDefaultMiddlewares(o.ReconnectTimeout) \o o.Middlewares) \o <<RateLimitStage>>

MiddlewaresOf(o) ==
    (NewDefaultMiddlewares(o.ReconnectTimeout) \o o.Middlewares)
        \o (IF o.Test # "" THEN <<RateLimitStage>> ELSE <<>>)

\* the kinds of the stages of a chain, and where a kind of stage sits in it
Kinds(sq) == [i \in 1..Len(sq) |-> sq[i].kind]

PosOf(sq, k) == {i \in 1..Len(sq) : sq[i].kind = k}

\* how often x occurs in a sequence
Count(sq, x) == Cardinality({i \in 1..Len(sq) : sq[i] = x})

\* the in-memory store after storage.StoreSession(ctx, []byte(o.Test))
SeedMemory(st, o) ==
    IF o.Test # ""
    THEN [st EXCEPT !["mem"] = [data |-> o.Test, read |-> FALSE, written |-> FALSE]]
    ELSE st

----------------------------------------------------------------------------
(* New *)

\* New fails only where it constructs something: lines 43-60
NewFailsOnClockOnly(o, e) ==
    o.NTP # "" /\ e.ntpFails

NewFails(o, e) ==
    \/ o.NTP # "" /\ e.ntpFails
    \/ o.Proxy # "" /\ e.proxyFails

NoCtorCalls == [ntp |-> 0, proxy |-> 0]

\* the constructors New calls: clock.NewNTP for a non-empty NTP address, and,
\* unless that failed, netutil.NewProxy for a non-empty Proxy string
NewCtorCalls(o, e) ==
    [ntp |-> IF o.NTP # "" THEN 1 ELSE 0,
     proxy |-> IF o.Proxy # "" /\ ~(o.NTP # "" /\ e.ntpFails) THEN 1 ELSE 0]

NewError(o, e) ==
    IF o.NTP # "" /\ e.ntpFails THEN "create network clock"
    ELSE IF o.Proxy # "" /\ e.proxyFails THEN "get dialer"
    ELSE "nil"

\* telegram.NewClient(o.AppID, o.AppHash, opts)
NewClient(o) ==
    [none |-> FALSE,
     Clock |-> IF o.NTP # "" THEN "ntp" ELSE "system",
     Dial |-> IF o.Proxy # "" THEN "proxy" ELSE "direct",
     SessionStorage |-> SessionStorageOf(o),
     Middlewares |-> MiddlewaresOf(o)]

New ==
    /\ pc = "init"
    /\ ctorCalls' = NewCtorCalls(opts, env)
    /\ IF NewFails(opts, env)
       THEN /\ client' = NoClient
            /\ newErr' = NewError(opts, env)
            /\ pc' = "newFailed"
            /\ UNCHANGED stores
       ELSE /\ client' = NewClient(opts)
            /\ newErr' = "nil"
            /\ stores' = SeedMemory(stores, opts)
            /\ pc' = "built"
    /\ UNCHANGED <<opts, env, status, fCalls, fErr, runResult>>

----------------------------------------------------------------------------
(* RunWithAuth: client.Run(ctx, callback) *)

NoStatus == [checked |-> FALSE, err |-> FALSE, Authorized |-> FALSE]

\* client.Run loads the session from the client's storage before connecting
RunLoadSession ==
    /\ pc = "built"
    /\ stores' = [stores EXCEPT ![client.SessionStorage].read = TRUE]
    /\ pc' = "connecting"
    /\ UNCHANGED <<opts, env, client, newErr, ctorCalls, status, fCalls, fErr, runResult>>

\* the connection is established and the (possibly renewed) session is saved
RunConnected ==
    /\ pc = "connecting"
    /\ stores' = [stores EXCEPT ![client.SessionStorage].written = TRUE]
    /\ pc' = "connected"
    /\ UNCHANGED <<opts, env, client, newErr, ctorCalls, status, fCalls, fErr, runResult>>

\* the connection cannot be established: Run returns without calling the callback
RunConnectFailed ==
    /\ pc = "connecting"
    /\ pc' = "done"
    /\ runResult' = "connect error"
    /\ UNCHANGED <<opts, env, client, newErr, ctorCalls, stores, status, fCalls, fErr>>

\* what f may return: nil, an error of its own, or the context's cancellation
TaskResults == {"nil", "task error", "canceled"}

\* the end of client.Run: the error the callback returned is Run's result,
\* except that a cancellation is reported as a clean stop
RunReturnUnfiltered(e) == e

RunReturn(e) == IF e = "canceled" THEN "nil" ELSE e

\* the decision of the callback once Status returned: lines 115-122
AuthGateNoCheck(st) ==
    IF st.err THEN "status error" ELSE "invoke"

AuthGate(st) ==
    IF st.err THEN "status error"
    ELSE IF ~st.Authorized THEN "not authorized"
    ELSE "invoke"

\* the callback given to client.Run, up to the call of f
Callback ==
    /\ pc = "connected"
    /\ \E e \in BOOLEAN :
         LET auth == IF client.SessionStorage = "mem"
                     THEN TokenData(stores["mem"].data) = "authorized"
                     ELSE stores["real"].data = "authorized"
             st == [checked |-> TRUE, err |-> e, Authorized |-> (~e /\ auth)]
         IN /\ status' = st
            /\ IF AuthGate(st) = "invoke"
               THEN /\ fCalls' = fCalls + 1
                    /\ pc' = "task"
                    /\ UNCHANGED runResult
               ELSE /\ runResult' = RunReturn(AuthGate(st))
                    /\ pc' = "done"
                    /\ UNCHANGED fCalls
    /\ UNCHANGED <<opts, env, client, newErr, ctorCalls, stores, fErr>>

\* f returns: its error (or nil) is what the callback, and so Run, returns
TaskReturns ==
    /\ pc = "task"
    /\ \E r \in TaskResults :
         /\ fErr' = r
         /\ runResult' = RunReturn(r)
    /\ pc' = "done"
    /\ UNCHANGED <<opts, env, client, newErr, ctorCalls, stores, status, fCalls>>

----------------------------------------------------------------------------
(* The exponential backoff newBackoff configures *)

\* backoff.Stop
Stop == -1

NoCall == [called |-> FALSE, elapsed |-> 0, drawn |-> 0, out |-> 0,
           interval |-> 0, prev |-> 0, afterStop |-> FALSE]

\* the backoff value after NewExponentialBackOff, the assignments of newBackoff
\* and Reset at time t
StartBackoff(timeout, t) ==
    [cfg |-> newBackoff(timeout),
     currentInterval |-> newBackoff(timeout).InitialInterval,
     startTime |-> t]

\* getRandomValueFromInterval: a value of [cur - delta, cur + delta], delta the
\* randomization factor times cur; r picks the low end, the middle or the high end
RandomValue(rf, r, cur) ==
    LET delta == (rf * cur) \div 10
    IN IF rf = 0 THEN cur
       ELSE CASE r = 0 -> cur - delta
              [] r = 1 -> cur
              [] OTHER -> cur + delta

\* incrementCurrentInterval: multiply, never beyond MaxInterval
IncrementCurrentInterval(b) ==
    IF b.currentInterval * b.cfg.Multiplier >= b.cfg.MaxInterval * 10
    THEN b.cfg.MaxInterval
    ELSE (b.currentInterval * b.cfg.Multiplier) \div 10

\* NextBackOff at time t with random draw r: the value returned
NextBackOffValue(b, t, r) ==
    LET elapsed == t - b.startTime
        next == RandomValue(b.cfg.RandomizationFactor, r, b.currentInterval)
    IN IF b.cfg.MaxElapsedTime # 0 /\ elapsed + next > b.cfg.MaxElapsedTime
       THEN Stop
       ELSE next

\* the record kept of a NextBackOff call
CallRecord(b, t, r) ==
    [called |-> TRUE,
     elapsed |-> t - b.startTime,
     drawn |-> RandomValue(b.cfg.RandomizationFactor, r, b.currentInterval),
     out |-> NextBackOffValue(b, t, r),
     interval |-> b.currentInterval,
     prev |-> IF last.called /\ last.out # Stop THEN last.out ELSE last.prev,
     afterStop |-> last.called /\ (last.out = Stop \/ last.afterStop)]

\* one call of NextBackOff on the backoff
NextBackOff ==
    /\ \E r \in 0..2 :
         last' = CallRecord(bo, now, r)
    /\ bo' = [bo EXCEPT !.currentInterval = IncrementCurrentInterval(bo)]
    /\ UNCHANGED <<now, conn, down>>

\* the last instant of the model's clock: later times are not told apart
Horizon == MaxSeconds * 1000

\* a second passes; a timer that is due fires before the clock moves on
Tick ==
    /\ now < Horizon
    /\ ~(conn.state = "backoff" /\ now >= conn.wakeAt)
    /\ now' = now + 1000
    /\ UNCHANGED <<bo, last, conn, down>>

NoConn == [state |-> "none", attempts |-> 0, wakeAt |-> 0, result |-> "nil"]

\* the backoff is not exercised
BackoffIdle ==
    /\ now = 0
    /\ bo = StartBackoff(0, 0)
    /\ last = NoCall
    /\ conn = NoConn
    /\ down = FALSE

----------------------------------------------------------------------------
(* One RPC through the middleware chain of a built client *)

Err(k) == [kind |-> k, wait |-> 0]

NilErr == Err("nil")

FloodWait(w) == [kind |-> "flood", wait |-> w]

\* what the server may answer to one request
ServerAnswers ==
    {Err("nil"), Err("transient"), Err("rejected")} \cup {FloodWait(w) : w \in 0..MaxWait}

NoHist ==
    [attempts |-> 0,        \* calls of next made by the retry stage
     seen |-> <<>>,         \* the error kinds next returned to the retry stage
     serverCalls |-> 0,     \* requests that reached the server
     floodsSent |-> 0,      \* flood-wait signals the server sent
     floodSignals |-> 0,    \* flood-wait signals the flood-wait stage received
     floodReissues |-> 0,   \* calls of next the flood-wait stage made after a wait
     slept |-> 0,           \* seconds since the flood-wait timer was started
     wokeFor |-> 0,         \* the wait carried by the signal of the last re-issue
     wokeAfter |-> 0,       \* the seconds slept before the last re-issue
     crashes |-> 0,         \* unexpected failures raised below the recovery stage
     lateCalls |-> 0,       \* calls of next a stage made after the cancellation
     cancelAt |-> "none"]   \* where the run was suspended when it was cancelled

\* the recovery stage's part of the state
NoRec ==
    [bo |-> StartBackoff(0, 0),   \* the backoff value the stage was built with
     wakeAt |-> 0,                \* when its backoff wait ends
     elapsed |-> 0,               \* the backoff's elapsed time at the last catch
     caught |-> 0,                \* unexpected failures the stage caught
     recoveries |-> 0,            \* calls of next the stage made after a wait
     stopped |-> FALSE]           \* its backoff answered Stop

\* the chain is not exercised under Spec
ChainIdle ==
    /\ rpc = "idle"
    /\ rpcResult = NilErr
    /\ depth = 0
    /\ phase = "down"
    /\ ret = NilErr
    /\ retries = 0
    /\ timer = 0
    /\ hist = NoHist
    /\ rec = NoRec
    /\ ctxDone = FALSE

chain == client.Middlewares

StageKind == IF depth \in 1..Len(chain) THEN chain[depth].kind ELSE "none"

\* the caller issues the RPC: control enters the outermost stage
Invoke ==
    /\ rpc = "idle"
    /\ rpc' = "running"
    /\ depth' = 1
    /\ phase' = "down"
    /\ UNCHANGED <<rpcResult, ret, retries, timer, hist, rec, ctxDone>>

\* retry stage: is this error one to retry (a transient failure)
RetryAnyError(e) == e.kind # "nil"

RetryIsTransient(e) == e.kind = "transient"

\* retry stage: what to do when next returned e after n earlier failures:
\* "again" (call next once more), "limit" (give up) or "pass" (return e)
RetryDecision(e, n, max) ==
    IF RetryIsTransient(e)
    THEN IF n + 1 < max THEN "again" ELSE "limit"
    ELSE "pass"

\* flood-wait stage: the time to sleep for a signal carrying wait w
FloodWaitDuration(w) == IF w = 0 THEN 1 ELSE w

\* recovery stage: is this a failure the stage catches (an unexpected internal
\* failure, not an answer of the server and not the context's cancellation)
RecoveryCatches(e) == e.kind = "unexpected"

\* recovery stage: what to do with a caught failure, v being what its backoff
\* answered: "stop" (the caller cancelled: controlled stop), "fatal" (budget
\* spent: re-raise) or "wait" (sleep v, then call next again)
RecoveryDecision(done, v) ==
    IF done THEN "stop"
    ELSE IF v = Stop THEN "fatal"
    ELSE "wait"

\* the backoff value after Reset at time t, for a configuration cfg
ResetBackoff(cfg, t) ==
    [cfg |-> cfg, currentInterval |-> cfg.InitialInterval, startTime |-> t]

\* a call of next made by a stage that re-issues: counted apart when the
\* context was already cancelled
Reissued(h) == IF ctxDone THEN [h EXCEPT !.lateCalls = @ + 1] ELSE h

\* a stage is entered and calls the next one
StageCall ==
    /\ rpc = "running" /\ phase = "down"
    /\ depth \in 1..Len(chain)
    /\ CASE StageKind = "retry" ->
              IF chain[depth].max > 0
              THEN /\ retries' = 0
                   /\ hist' = [hist EXCEPT !.attempts = @ + 1]
                   /\ depth' = depth + 1
                   /\ UNCHANGED <<phase, ret, rec>>
              ELSE /\ ret' = Err("retry limit")
                   /\ phase' = "up"
                   /\ depth' = depth - 1
                   /\ UNCHANGED <<retries, hist, rec>>
         [] StageKind = "recovery" ->
              /\ rec' = [rec EXCEPT !.bo = ResetBackoff(chain[depth].backoff, now)]
              /\ depth' = depth + 1
              /\ UNCHANGED <<phase, ret, retries, hist>>
         [] OTHER ->
              /\ depth' = depth + 1
              /\ UNCHANGED <<phase, ret, retries, hist, rec>>
    /\ UNCHANGED <<rpc, rpcResult, timer, ctxDone>>

\* the request reaches the server, which answers with one of the answers A
ServerReplies(A) ==
    /\ rpc = "running" /\ phase = "down"
    /\ depth = Len(chain) + 1
    /\ ~ctxDone
    /\ \E a \in A :
         /\ a.kind = "flood" =>
              hist.floodsSent < MaxFloods
         /\ ret' = a
         /\ hist' = [hist EXCEPT !.serverCalls = @ + 1,
                                 !.floodsSent = @ + (IF a.kind = "flood" THEN 1 ELSE 0)]
    /\ phase' = "up"
    /\ depth' = depth - 1
    /\ UNCHANGED <<rpc, rpcResult, retries, timer, rec, ctxDone>>

ServerAnswer == ServerReplies(ServerAnswers)

\* the server answers at once, with a result or a rejection
ServerAnswerPlain == ServerReplies({Err("nil"), Err("rejected")})

\* the next stage returned ret to the stage at depth
StageReturn ==
    /\ rpc = "running" /\ phase = "up"
    /\ depth \in 1..Len(chain)
    /\ CASE StageKind = "retry" ->
              LET h == [hist EXCEPT !.seen = Append(@, ret.kind)]
                  d == RetryDecision(ret, retries, chain[depth].max)
              IN /\ retries' = IF d = "pass" THEN retries ELSE retries + 1
                 /\ hist' = IF d = "again"
                            THEN Reissued([h EXCEPT !.attempts = @ + 1])
                            ELSE h
                 /\ phase' = IF d = "again" THEN "down" ELSE "up"
                 /\ depth' = IF d = "again" THEN depth + 1 ELSE depth - 1
                 /\ ret' = IF d = "limit" THEN Err("retry limit") ELSE ret
                 /\ UNCHANGED <<timer, rec>>
         [] StageKind = "floodwait" ->
              IF ret.kind = "flood"
              THEN /\ timer' = FloodWaitDuration(ret.wait)
                   /\ hist' = [hist EXCEPT !.floodSignals = @ + 1, !.slept = 0]
                   /\ phase' = "sleep"
                   /\ UNCHANGED <<depth, ret, retries, rec>>
              ELSE /\ depth' = depth - 1
                   /\ UNCHANGED <<phase, ret, retries, timer, hist, rec>>
         [] StageKind = "recovery" /\ RecoveryCatches(ret) ->
              \E r \in 0..2 :
                 LET v == NextBackOffValue(rec.bo, now, r)
                     d == RecoveryDecision(ctxDone, v)
                 IN /\ rec' = [rec EXCEPT
                                 !.caught = @ + 1,
                                 !.elapsed = now - rec.bo.startTime,
                                 !.stopped = (d = "fatal"),
                                 !.wakeAt = IF d = "wait" THEN now + v ELSE @,
                                 !.bo = IF d = "stop" THEN @
                                        ELSE [@ EXCEPT !.currentInterval =
                                                 IncrementCurrentInterval(rec.bo)]]
                    /\ phase' = IF d = "wait" THEN "recover" ELSE "up"
                    /\ depth' = IF d = "wait" THEN depth ELSE depth - 1
                    /\ ret' = CASE d = "stop" -> Err("canceled")
                                [] d = "fatal" -> Err("fatal")
                                [] OTHER -> ret
                    /\ UNCHANGED <<retries, timer, hist>>
         [] OTHER ->
              /\ depth' = depth - 1
              /\ UNCHANGED <<phase, ret, retries, timer, hist, rec>>
    /\ UNCHANGED <<rpc, rpcResult, ctxDone>>

\* a second passes while the flood-wait stage sleeps
TimerTick ==
    /\ rpc = "running" /\ phase = "sleep"
    /\ \/ timer > 0 /\ timer' = timer - 1
       \/ /\ timer = 0
          /\ hist.slept < FloodWaitDuration(ret.wait) + MaxOversleep
          /\ UNCHANGED timer
    /\ hist' = [hist EXCEPT !.slept = @ + 1]
    /\ UNCHANGED <<rpc, rpcResult, depth, phase, ret, retries, rec, ctxDone>>

\* the flood-wait timer fired: the stage calls next again
FloodWaitWake ==
    /\ rpc = "running" /\ phase = "sleep"
    /\ timer = 0
    /\ ~ctxDone
    /\ hist' = [hist EXCEPT !.floodReissues = @ + 1,
                            !.wokeFor = ret.wait,
                            !.wokeAfter = hist.slept]
    /\ phase' = "down"
    /\ depth' = depth + 1
    /\ UNCHANGED <<rpc, rpcResult, ret, retries, timer, rec, ctxDone>>

\* the outermost stage returned: the RPC is over
Return ==
    /\ rpc = "running" /\ phase = "up"
    /\ depth = 0
    /\ rpc' = "done"
    /\ rpcResult' = ret
    /\ UNCHANGED <<depth, phase, ret, retries, timer, hist, rec, ctxDone>>

----------------------------------------------------------------------------
(* Unexpected failures, the recovery stage's wait, and cancellation *)

\* the RPC, or a stage below the recovery stage, fails unexpectedly
Crash ==
    /\ rpc = "running" /\ phase = "down"
    /\ depth \in 2..(Len(chain) + 1)
    /\ ~ctxDone
    /\ hist.crashes < MaxCrashes
    /\ ret' = Err("unexpected")
    /\ hist' = [hist EXCEPT !.crashes = @ + 1]
    /\ phase' = "up"
    /\ depth' = depth - 1
    /\ UNCHANGED <<rpc, rpcResult, retries, timer, rec, ctxDone>>

\* the recovery stage's backoff wait is over: it calls next again
RecoveryWake ==
    /\ rpc = "running" /\ phase = "recover"
    /\ now >= rec.wakeAt \/ now = Horizon
    /\ ~ctxDone
    /\ rec' = [rec EXCEPT !.recoveries = @ + 1, !.wakeAt = 0]
    /\ phase' = "down"
    /\ depth' = depth + 1
    /\ UNCHANGED <<rpc, rpcResult, ret, retries, timer, hist, ctxDone>>

\* time passes while the recovery stage waits and its timer is not due
RecoveryTick ==
    /\ rpc = "running" /\ phase = "recover"
    /\ now < rec.wakeAt
    /\ Tick

\* where the run is suspended, if it is: waiting for the answer of the RPC,
\* in a sleep of the flood-wait or the recovery stage, dialing, or in the
\* backoff wait of the connection loop
SuspendedIn ==
    IF rpc = "running"
    THEN CASE phase = "sleep" -> "flood-wait sleep"
           [] phase = "recover" -> "recovery wait"
           [] phase = "down" /\ depth = Len(chain) + 1 -> "rpc"
           [] OTHER -> "none"
    ELSE CASE rpc = "idle" /\ conn.state = "connecting" -> "dialing"
           [] rpc = "idle" /\ conn.state = "backoff" -> "backoff wait"
           [] OTHER -> "none"

\* the caller's cancellation signal fires
Cancel ==
    /\ ~ctxDone
    /\ conn.state \notin {"closed", "task"}
    /\ ctxDone' = TRUE
    /\ hist' = [hist EXCEPT !.cancelAt = SuspendedIn]
    /\ UNCHANGED <<rpc, rpcResult, depth, phase, ret, retries, timer, rec>>

\* a call that waits for its answer, or a stage that sleeps, sees the context
\* done: it returns the context's error
RpcCanceled ==
    /\ rpc = "running"
    /\ ctxDone
    /\ \/ phase = "down" /\ depth = Len(chain) + 1
       \/ phase \in {"sleep", "recover"}
    /\ ret' = Err("canceled")
    /\ phase' = "up"
    /\ depth' = depth - 1
    /\ UNCHANGED <<rpc, rpcResult, retries, timer, hist, rec, ctxDone>>

----------------------------------------------------------------------------
(* The connection loop of client.Run, paced by ReconnectionBackoff *)

\* client.Run has started: the backoff of ReconnectionBackoff is reset and the
\* first connection attempt is under way
StartedConn == [state |-> "connecting", attempts |-> 1, wakeAt |-> 0, result |-> "nil"]

\* the attempt succeeds: the connection is ready and the callback runs
ConnectOk ==
    /\ conn.state = "connecting"
    /\ ~down
    /\ ~ctxDone
    /\ conn' = [conn EXCEPT !.state = "ready"]
    /\ UNCHANGED <<now, bo, last, down>>

\* the loop after a failed attempt or a lost connection: with the context
\* done the run ends with the context's error; else ask the backoff: on Stop
\* the run ends with the connection error, else sleep the interval
AfterFailure ==
    /\ IF ctxDone
       THEN /\ conn' = [conn EXCEPT !.state = "closed", !.result = RunReturn("canceled")]
            /\ UNCHANGED <<bo, last>>
       ELSE /\ \E r \in 0..2 :
                 /\ last' = CallRecord(bo, now, r)
                 /\ conn' = IF NextBackOffValue(bo, now, r) = Stop
                            THEN [conn EXCEPT !.state = "closed",
                                              !.result = "connection error"]
                            ELSE [conn EXCEPT !.state = "backoff",
                                              !.wakeAt = now + NextBackOffValue(bo, now, r)]
            /\ bo' = [bo EXCEPT !.currentInterval = IncrementCurrentInterval(bo)]
    /\ UNCHANGED <<now, down>>

\* a failure while the transport is still usable
Glitch ==
    /\ conn.state \in {"connecting", "ready"}
    /\ ~down
    /\ AfterFailure

\* a failure because the transport is down for good
FailDown ==
    /\ conn.state \in {"connecting", "ready"}
    /\ down
    /\ AfterFailure

\* from now on the transport keeps failing
TransportDown ==
    /\ conn.state \in {"connecting", "ready", "backoff"}
    /\ ~down
    /\ down' = TRUE
    /\ UNCHANGED <<now, bo, last, conn>>

\* the backoff sleep is over: the next connection attempt starts
Reconnect ==
    /\ conn.state = "backoff"
    /\ now >= conn.wakeAt \/ now = Horizon
    /\ ~ctxDone
    /\ conn' = [conn EXCEPT !.state = "connecting", !.attempts = IF @ < MaxAttempts THEN @ + 1 ELSE @]
    /\ UNCHANGED <<now, bo, last, down>>

\* the callback returned: the run ends with what it returned
CallbackDone ==
    /\ conn.state = "ready"
    /\ \E r \in {"nil", "callback error"} :
         conn' = [conn EXCEPT !.state = "closed", !.result = r]
    /\ UNCHANGED <<now, bo, last, down>>

----------------------------------------------------------------------------
(* A run up to the authorization check, and its cancellation *)

\* a dial fails
DialFails ==
    /\ conn.state = "connecting"
    /\ rpc = "idle"
    /\ Glitch

\* time passes during the backoff wait of the connection loop
BackoffTick ==
    /\ conn.state = "backoff"
    /\ Tick

\* the dial, or the backoff wait, sees the context done: the loop ends
ConnCanceled ==
    /\ conn.state \in {"connecting", "backoff"}
    /\ ctxDone
    /\ conn' = [conn EXCEPT !.state = "closed", !.result = RunReturn("canceled")]
    /\ UNCHANGED <<now, bo, last, down>>

\* the callback starts on the ready connection: client.Auth().Status(ctx)
\* issues its RPC through the chain
AuthCheck ==
    /\ conn.state = "ready"
    /\ conn.attempts <= MaxDialFailures + 1
    /\ Invoke

\* the server answers the authorization check
AuthCheckAnswer ==
    ServerReplies({a \in ServerAnswers :
                     a.kind = "transient" =>
                        Count(hist.seen, "transient") < MaxCheckTransients})

\* the RPC of the authorization check fails unexpectedly
AuthCheckCrash ==
    /\ hist.crashes < MaxCheckCrashes
    /\ depth = Len(chain) + 1
    /\ Crash

\* Status returned: the callback returns its error, or the not-authorized
\* error, or goes on to call f; what it returns ends the run
AuthCheckReturns ==
    /\ conn.state = "ready"
    /\ rpc = "done"
    /\ IF rpcResult.kind # "nil"
       THEN conn' = [conn EXCEPT !.state = "closed", !.result = RunReturn(rpcResult.kind)]
       ELSE \E st \in {[checked |-> TRUE, err |-> FALSE, Authorized |-> a] : a \in BOOLEAN} :
               conn' = IF AuthGate(st) = "invoke"
                       THEN [conn EXCEPT !.state = "task"]
                       ELSE [conn EXCEPT !.state = "closed",
                                         !.result = RunReturn(AuthGate(st))]
    /\ UNCHANGED <<now, bo, last, down>>

----------------------------------------------------------------------------
(* Concurrent calls through the rate-limit stage *)

\* the rate-limit stage of the chain, if New added one
RateStages == {chain[i] : i \in PosOf(chain, "ratelimit")}

RateStage == CHOOSE st \in RateStages : TRUE

\* the clock of SpecRate moves in half periods of the limit
HalfPeriod == RateStage.every \div 2

RateHorizon == MaxHalfPeriods * HalfPeriod

\* tokens are counted in milliseconds of refill: one token is `every` of them
FullBucket == RateStage.burst * RateStage.every

NoCallState == [st |-> "idle", at |-> 0, tokens |-> 0, tta |-> 0]

\* rate.NewLimiter: a full bucket, the mutex free
NewLimiter == [tokens |-> FullBucket, last |-> 0, mu |-> 0, grants |-> 0]

RateIdle ==
    /\ lim = [tokens |-> 0, last |-> 0, mu |-> 0, grants |-> 0]
    /\ calls = <<>>
    /\ sent = <<>>

\* Limiter.advance: the tokens at time t, capped by the burst
Advance(l, t) ==
    LET lastT == IF t < l.last THEN t ELSE l.last
        tk == l.tokens + (t - lastT)
    IN IF tk > FullBucket THEN FullBucket ELSE tk

\* lim.mu.Lock() succeeds only on a free mutex
MutexIgnored(l) == TRUE

MutexFree(l) == l.mu = 0

\* a call reaches the stage: wait() reads the clock
RateArrive(c) ==
    /\ calls[c].st = "idle"
    /\ \A d \in 1..(c - 1) : calls[d].st # "idle"
    /\ calls' = [calls EXCEPT ![c].st = "arrived", ![c].at = now]
    /\ UNCHANGED <<now, lim, sent>>

\* ReserveN: the call takes the limiter's mutex
RateLock(c) ==
    /\ calls[c].st = "arrived"
    /\ MutexFree(lim)
    /\ lim' = [lim EXCEPT !.mu = c]
    /\ calls' = [calls EXCEPT ![c].st = "locked"]
    /\ UNCHANGED <<now, sent>>

\* reserveN: the tokens as of the call's time are computed
RateAdvance(c) ==
    /\ calls[c].st = "locked"
    /\ calls' = [calls EXCEPT ![c].st = "advanced",
                              ![c].tokens = Advance(lim, calls[c].at)]
    /\ UNCHANGED <<now, lim, sent>>

\* reserveN: one token is taken, the time to act fixed, the mutex released;
\* wait() then returns at once (the call goes on to the server) or starts a timer
RateCommit(c) ==
    /\ calls[c].st = "advanced"
    /\ LET tk == calls[c].tokens - RateStage.every
           delay == IF tk < 0 THEN -tk ELSE 0
       IN /\ lim' = [tokens |-> tk, last |-> calls[c].at, mu |-> 0,
                     grants |-> lim.grants + 1]
          /\ calls' = [calls EXCEPT ![c].st = IF delay = 0 THEN "done" ELSE "waiting",
                                    ![c].tta = calls[c].at + delay]
          /\ sent' = IF delay = 0 THEN [sent EXCEPT ![now] = @ + 1] ELSE sent
    /\ UNCHANGED now

\* the timer of wait() fired: the call goes on to the server
RateFire(c) ==
    /\ calls[c].st = "waiting"
    /\ now >= calls[c].tta
    /\ calls' = [calls EXCEPT ![c].st = "done"]
    /\ sent' = [sent EXCEPT ![now] = @ + 1]
    /\ UNCHANGED <<now, lim>>

\* half a period passes: no call is inside wait()'s computation and no timer is due
RateTick ==
    /\ now < RateHorizon
    /\ \A c \in DOMAIN calls :
         /\ calls[c].st \notin {"arrived", "locked", "advanced"}
         /\ calls[c].st = "waiting" => now < calls[c].tta
    /\ now' = now + HalfPeriod
    /\ UNCHANGED <<lim, calls, sent>>

----------------------------------------------------------------------------
(* The upload walker: walk(paths, includes, excludes) *)

\* strings are sequences of characters; these are the names of the model
Jpg == <<"j", "p", "g">>

DotJpg == <<".", "j", "p", "g">>

Thumb == <<"t", "h", "u", "m", "b">>

\* consts.UploadThumbExt
UploadThumbExt == <<".", "t", "h", "u", "m", "b">>

\* the root paths: a directory and a path that does not exist
RootDir == <<"d">>

RootMissing == <<"x">>

\* the names a directory may hold, in the order os.ReadDir lists them (by
\* file name); the last one is a subdirectory, the others are regular files
Names ==
    << <<"a">>, <<"a">> \o DotJpg, <<"a">> \o UploadThumbExt,
       <<"p", "i">>, <<"p", "i">> \o DotJpg, <<"p", "i">> \o UploadThumbExt,
       <<"p", "i", "g">>, <<"p", "i", "g">> \o DotJpg, <<"p", "i", "g">> \o UploadThumbExt,
       <<"s">> >>

SubDir == Len(Names)

\* the listings of the directory: at most MaxEntries of the names, in order
Listings ==
    {l \in UNION {[1..n -> DOMAIN Names] : n \in 0..MaxEntries} :
        \A i \in 1..(Len(l) - 1) : l[i] < l[i + 1]}

\* the roots walk may be given, and the filter lists
RootLists == UNION {[1..n -> {RootDir, RootMissing}] : n \in 0..MaxRoots}

IncludeLists == {<<>>, <<Jpg>>, <<UploadThumbExt>>, <<Jpg, Thumb>>}

ExcludeLists == {<<>>, <<DotJpg>>}

NoWalkIn ==
    [paths |-> <<>>, includes |-> <<>>, excludes |-> <<>>,
     listing |-> <<>>, unreadable |-> FALSE]

NoWalkOut == [done |-> FALSE, files |-> <<>>, err |-> "nil"]

WalkIdle == walkIn = NoWalkIn /\ walkOut = NoWalkOut

Join(dir, name) == dir \o <<"/">> \o name

\* every path that exists on the disk of walkIn
Disk(in) == {RootDir} \cup {Join(RootDir, Names[in.listing[i]]) : i \in DOMAIN in.listing}

\* fsutil.PathExists
PathExists(t, in) == t \in Disk(in)

\* what filepath.WalkDir hands to its callback for one entry of the directory:
\* a regular file once; a directory once, and once more with the error of
\* reading it when it cannot be read
VisitsOfEntry(in, n) ==
    LET path == Join(RootDir, Names[n])
    IN  IF n # SubDir THEN << [path |-> path, dir |-> FALSE, err |-> "nil"] >>
        ELSE IF ~in.unreadable THEN << [path |-> path, dir |-> TRUE, err |-> "nil"] >>
        ELSE << [path |-> path, dir |-> TRUE, err |-> "nil"],
                [path |-> path, dir |-> TRUE, err |-> "readdir"] >>

RECURSIVE VisitsOfListing(_, _)
VisitsOfListing(in, l) ==
    IF l = <<>> THEN <<>>
    ELSE VisitsOfEntry(in, Head(l)) \o VisitsOfListing(in, Tail(l))

\* the calls of the callback filepath.WalkDir makes for one root, in order
VisitsOfRoot(in, root) ==
    IF root = RootMissing
    THEN << [path |-> root, dir |-> FALSE, err |-> "lstat"] >>
    ELSE << [path |-> root, dir |-> TRUE, err |-> "nil"] >> \o VisitsOfListing(in, in.listing)

\* strings.HasPrefix
HasPrefix(s, prefix) == Len(s) >= Len(prefix) /\ SubSeq(s, 1, Len(prefix)) = prefix

\* fsutil.AddPrefixDot
AddPrefixDot(e) == IF HasPrefix(e, <<".">>) THEN e ELSE <<".">> \o e

\* filterMap.New(data, fsutil.AddPrefixDot): the keys of the map
filterMapNew(data) == {AddPrefixDot(data[i]) : i \in DOMAIN data}

includesMapOf(includes) == filterMapNew(includes)

excludesMapUnforced(excludes) == filterMapNew(excludes)

\* the excludes map, with the thumbnail extension put into it
excludesMapOf(excludes) == filterMapNew(excludes) \cup {UploadThumbExt}

\* filepath.Ext: the suffix from the last dot of the last element of the path
Ext(path) ==
    LET dots == {i \in DOMAIN path : path[i] = "." /\ \A j \in i..Len(path) : path[j] # "/"}
    IN  IF dots = {} THEN <<>>
        ELSE SubSeq(path, CHOOSE i \in dots : \A j \in dots : j <= i, Len(path))

\* strings.TrimRight(s, cutset): s without its trailing characters that are in cutset
RECURSIVE TrimRight(_, _)
TrimRight(s, cutset) ==
    IF s # <<>> /\ \E k \in DOMAIN cutset : cutset[k] = s[Len(s)]
    THEN TrimRight(SubSeq(s, 1, Len(s) - 1), cutset)
    ELSE s

\* the two filters of the callback: TRUE when the file is kept
Filtered(path, includesMap, excludesMap) ==
    LET ext == Ext(path)
    IN  \/ Cardinality(includesMap) > 0 /\ ext \notin includesMap
        \/ Cardinality(excludesMap) > 0 /\ ext \in excludesMap

\* the file the callback appends for a path: the path and its thumbnail
FileOf(path, in) ==
    LET t == TrimRight(path, Ext(path)) \o UploadThumbExt
    IN  [file |-> path, thumb |-> IF PathExists(t, in) THEN t ELSE <<>>]

\* filepath.WalkDir with the callback of walk, over the visits that are left:
\* the files after it and the error it returned
RECURSIVE WalkDir(_, _, _, _, _)
WalkDir(visits, files, includesMap, excludesMap, in) ==
    IF visits = <<>> THEN [files |-> files, err |-> "nil"]
    ELSE LET v == Head(visits)
         IN  IF v.err # "nil" THEN [files |-> files, err |-> v.err]
             ELSE IF v.dir \/ Filtered(v.path, includesMap, excludesMap)
             THEN WalkDir(Tail(visits), files, includesMap, excludesMap, in)
             ELSE WalkDir(Tail(visits), Append(files, FileOf(v.path, in)),
                          includesMap, excludesMap, in)

\* the loop over the roots: files, nil at its end, nil, err at the first error
RECURSIVE WalkPaths(_, _, _, _, _)
WalkPaths(paths, files, includesMap, excludesMap, in) ==
    IF paths = <<>> THEN [done |-> TRUE, files |-> files, err |-> "nil"]
    ELSE LET r == WalkDir(VisitsOfRoot(in, Head(paths)), files, includesMap, excludesMap, in)
         IN  IF r.err # "nil" THEN [done |-> TRUE, files |-> <<>>, err |-> r.err]
             ELSE WalkPaths(Tail(paths), r.files, includesMap, excludesMap, in)

walk ==
    /\ ~walkOut.done
    /\ walkOut' = WalkPaths(walkIn.paths, <<>>, includesMapOf(walkIn.includes),
                            excludesMapOf(walkIn.excludes), walkIn)
    /\ UNCHANGED walkIn

----------------------------------------------------------------------------
(* The extension commands: Install, Upgrade and Remove *)

\* extensions.Prefix
Prefix == <<"t", "d", "l", "-">>

\* the names of the extensions the manager may list
ExtNames == {<<"a">>, <<"b">>, <<"c">>}

\* what the manager may list: at most MaxExts extensions, each name once
ExtLists ==
    {l \in UNION {[1..n -> ExtNames] : n \in 0..MaxExts} :
        \A i, j \in DOMAIN l : l[i] = l[j] => i = j}

\* the targets of Install: a name, a prefixed name, a repository
InstallTargets == {<<"a">>, Prefix \o <<"a">>, <<"o", "/">> \o Prefix \o <<"a">>}

\* the names Upgrade and Remove are called with: none, installed or not,
\* prefixed or not, and the bare prefix
NameArgs == {<<>>, <<"a">>, <<"b">>, Prefix \o <<"a">>, Prefix, <<"d">>}

\* how em.Upgrade may end
UpgradeOutcomes == {"nil", "ErrAlreadyUpToDate", "ErrOnlyGitHub", "error"}

AllNil == [n \in ExtNames |-> "nil"]

NoManager ==
    [exts |-> <<>>, listFails |-> FALSE, dryRun |-> FALSE,
     install |-> "nil", upgrade |-> AllNil, remove |-> AllNil]

NoExtCall == [op |-> "none", target |-> <<>>, force |-> FALSE]

NoExtRes == [done |-> FALSE, err |-> "nil", listed |-> <<>>, calls |-> <<>>, out |-> <<>>]

ExtIdle == em = NoManager /\ extCall = NoExtCall /\ extRes = NoExtRes

TrimNothing(s, prefix) == s

\* strings.TrimPrefix
TrimPrefix(s, prefix) ==
    IF HasPrefix(s, prefix) THEN SubSeq(s, Len(prefix) + 1, Len(s)) ELSE s

\* normalizeExtName: the name after its last slash, with the prefix put in front
normalizeExtName(n) ==
    LET slashes == {i \in DOMAIN n : n[i] = "/"}
        base == IF slashes = {} THEN n
                ELSE SubSeq(n, (CHOOSE i \in slashes : \A j \in slashes : j <= i) + 1, Len(n))
    IN  IF HasPrefix(base, Prefix) THEN base ELSE Prefix \o base

\* a call on the manager, and a line printed by info, succ or fail
Called(fn, name, flag) == [fn |-> fn, name |-> name, flag |-> flag]

Line(level, text, name) == [level |-> level, text |-> text, name |-> normalizeExtName(name)]

\* what Install returns when em.Install returned err
InstallReturnsFailure(err) == err

InstallReturn(err) == "nil"

Install ==
    /\ extCall.op = "Install"
    /\ ~extRes.done
    /\ LET err == em.install
       IN  extRes' =
             [done |-> TRUE,
              err |-> InstallReturn(err),
              listed |-> <<>>,
              calls |-> << Called("Install", extCall.target, extCall.force) >>,
              out |-> << Line("info", "installing", extCall.target),
                         IF err # "nil"
                         THEN Line("fail", "install failed", extCall.target)
                         ELSE Line("succ", "installed", extCall.target) >>]
    /\ UNCHANGED <<em, extCall>>

\* the line Upgrade prints after em.Upgrade(ctx, e) returned err
UpgradeLine(e, err, dryRun) ==
    CASE err = "ErrAlreadyUpToDate" -> Line("succ", "already up-to-date", e)
      [] err = "ErrOnlyGitHub" -> Line("fail", "only GitHub extensions can be upgraded", e)
      [] err = "nil" /\ dryRun -> Line("succ", "will be upgraded", e)
      [] err = "nil" /\ ~dryRun -> Line("succ", "upgraded", e)
      [] OTHER -> Line("fail", "upgrade failed", e)

\* the loop of Upgrade over the listed extensions that are left
RECURSIVE UpgradeLoop(_, _, _, _)
UpgradeLoop(exts, ext, made, out) ==
    IF exts = <<>> THEN [calls |-> made, out |-> out]
    ELSE LET e == Head(exts)
         IN  IF ext # <<>> /\ e # ext
             THEN UpgradeLoop(Tail(exts), ext, made, out)
             ELSE UpgradeLoop(Tail(exts), ext,
                              Append(made, Called("Upgrade", e, FALSE)),
                              out \o << Line("info", "upgrading", e),
                                        UpgradeLine(e, em.upgrade[e], em.dryRun) >>)

Upgrade ==
    /\ extCall.op = "Upgrade"
    /\ ~extRes.done
    /\ LET list == Called("List", <<>>, extCall.target = <<>>)
           ext == TrimPrefix(extCall.target, Prefix)
           loop == UpgradeLoop(em.exts, ext, <<list>>, <<>>)
       IN  extRes' =
             IF em.listFails
             THEN [done |-> TRUE, err |-> "list extensions with metadata",
                   listed |-> <<>>, calls |-> <<list>>, out |-> <<>>]
             ELSE IF Len(em.exts) = 0
             THEN [done |-> TRUE, err |-> "no extensions installed",
                   listed |-> em.exts, calls |-> <<list>>, out |-> <<>>]
             ELSE [done |-> TRUE, err |-> "nil",
                   listed |-> em.exts, calls |-> loop.calls, out |-> loop.out]
    /\ UNCHANGED <<em, extCall>>

\* the listed extensions without the one at position i
Without(exts, i) == SubSeq(exts, 1, i - 1) \o SubSeq(exts, i + 1, Len(exts))

Remove ==
    /\ extCall.op = "Remove"
    /\ ~extRes.done
    /\ LET list == Called("List", <<>>, FALSE)
           ext == TrimPrefix(extCall.target, Prefix)
           matches == {i \in DOMAIN em.exts : ext = em.exts[i]}
           first == CHOOSE i \in matches : \A j \in matches : i <= j
       IN  IF em.listFails
           THEN /\ extRes' = [done |-> TRUE, err |-> "list extensions",
                              listed |-> <<>>, calls |-> <<list>>, out |-> <<>>]
                /\ em' = em
           ELSE IF matches = {}
           THEN /\ extRes' = [done |-> TRUE, err |-> "no extension matched",
                              listed |-> em.exts, calls |-> <<list>>, out |-> <<>>]
                /\ em' = em
           ELSE LET e == em.exts[first]
                    made == << list, Called("Remove", e, FALSE) >>
                IN  IF em.remove[e] # "nil"
                    THEN /\ extRes' = [done |-> TRUE, err |-> "nil", listed |-> em.exts,
                                       calls |-> made,
                                       out |-> << Line("fail", "remove failed", e) >>]
                         /\ em' = em
                    ELSE /\ extRes' = [done |-> TRUE, err |-> "nil", listed |-> em.exts,
                                       calls |-> made,
                                       out |-> << Line("succ", "removed", e) >>]
                         /\ em' = [em EXCEPT !.exts = Without(em.exts, first)]
    /\ UNCHANGED extCall

----------------------------------------------------------------------------
(* The specifications *)

BootInit ==
    /\ opts \in OptionsSet
    /\ env \in [ntpFails : BOOLEAN, proxyFails : BOOLEAN]
    /\ client = NoClient
    /\ newErr = "nil"
    /\ ctorCalls = NoCtorCalls
    /\ \E d \in SessionData :
         stores = [s \in {"real", "mem"} |->
                     [data |-> IF s = "real" THEN d ELSE "",
                      read |-> FALSE, written |-> FALSE]]
    /\ pc = "init"
    /\ status = NoStatus
    /\ fCalls = 0
    /\ fErr = "none"
    /\ runResult = "nil"

Init == BootInit /\ ChainIdle /\ BackoffIdle /\ RateIdle /\ WalkIdle /\ ExtIdle

Next ==
    \/ New /\ UNCHANGED <<chainVars, boVars, rateVars, walkVars, extVars>>
    \/ RunLoadSession /\ UNCHANGED <<chainVars, boVars, rateVars, walkVars, extVars>>
    \/ RunConnected /\ UNCHANGED <<chainVars, boVars, rateVars, walkVars, extVars>>
    \/ RunConnectFailed /\ UNCHANGED <<chainVars, boVars, rateVars, walkVars, extVars>>
    \/ Callback /\ UNCHANGED <<chainVars, boVars, rateVars, walkVars, extVars>>
    \/ TaskReturns /\ UNCHANGED <<chainVars, boVars, rateVars, walkVars, extVars>>

Spec == Init /\ [][Next]_vars

\* a client as New builds it, for the options that shape the chain
ChainInit ==
    /\ opts \in {o \in OptionsSet : o.NTP = "" /\ o.Proxy = ""}
    /\ env = [ntpFails |-> FALSE, proxyFails |-> FALSE]
    /\ client = NewClient(opts)
    /\ newErr = "nil"
    /\ ctorCalls = NoCtorCalls
    /\ stores = SeedMemory([s \in {"real", "mem"} |->
                               [data |-> IF s = "real" THEN "authorized" ELSE "",
                                read |-> FALSE, written |-> FALSE]], opts)
    /\ pc = "built"
    /\ status = NoStatus
    /\ fCalls = 0
    /\ fErr = "none"
    /\ runResult = "nil"
    /\ ChainIdle
    /\ BackoffIdle
    /\ RateIdle
    /\ WalkIdle
    /\ ExtIdle

ChainNext ==
    \/ Invoke /\ UNCHANGED <<bootVars, boVars, rateVars, walkVars, extVars>>
    \/ StageCall /\ UNCHANGED <<bootVars, boVars, rateVars, walkVars, extVars>>
    \/ ServerAnswer /\ UNCHANGED <<bootVars, boVars, rateVars, walkVars, extVars>>
    \/ StageReturn /\ UNCHANGED <<bootVars, boVars, rateVars, walkVars, extVars>>
    \/ TimerTick /\ UNCHANGED <<bootVars, boVars, rateVars, walkVars, extVars>>
    \/ FloodWaitWake /\ UNCHANGED <<bootVars, boVars, rateVars, walkVars, extVars>>
    \/ Return /\ UNCHANGED <<bootVars, boVars, rateVars, walkVars, extVars>>

SpecChain == ChainInit /\ [][ChainNext]_vars

\* one RPC through the chain of a production client, with unexpected failures
\* below the recovery stage and the passing of time
RecoverInit ==
    /\ opts \in {o \in OptionsSet : o.NTP = "" /\ o.Proxy = "" /\ o.Test = ""}
    /\ env = [ntpFails |-> FALSE, proxyFails |-> FALSE]
    /\ client = NewClient(opts)
    /\ newErr = "nil"
    /\ ctorCalls = NoCtorCalls
    /\ stores = [s \in {"real", "mem"} |->
                   [data |-> IF s = "real" THEN "authorized" ELSE "",
                    read |-> FALSE, written |-> FALSE]]
    /\ pc = "built"
    /\ status = NoStatus
    /\ fCalls = 0
    /\ fErr = "none"
    /\ runResult = "nil"
    /\ ChainIdle
    /\ BackoffIdle
    /\ RateIdle
    /\ WalkIdle
    /\ ExtIdle

RecoverNext ==
    \/ Invoke /\ UNCHANGED <<bootVars, boVars, rateVars, walkVars, extVars>>
    \/ StageCall /\ UNCHANGED <<bootVars, boVars, rateVars, walkVars, extVars>>
    \/ ServerAnswerPlain /\ UNCHANGED <<bootVars, boVars, rateVars, walkVars, extVars>>
    \/ Crash /\ UNCHANGED <<bootVars, boVars, rateVars, walkVars, extVars>>
    \/ StageReturn /\ UNCHANGED <<bootVars, boVars, rateVars, walkVars, extVars>>
    \/ RecoveryWake /\ UNCHANGED <<bootVars, boVars, rateVars, walkVars, extVars>>
    \/ RecoveryTick /\ UNCHANGED <<bootVars, chainVars, rateVars, walkVars, extVars>>
    \/ Return /\ UNCHANGED <<bootVars, boVars, rateVars, walkVars, extVars>>

SpecRecover == RecoverInit /\ [][RecoverNext]_vars

\* a run of a production client from its first dial to the end of the
\* authorization check, which the caller may cancel at any moment
CancelInit ==
    /\ opts \in {o \in OptionsSet :
                   o.NTP = "" /\ o.Proxy = "" /\ o.Test = "" /\ o.Middlewares = <<>>}
    /\ env = [ntpFails |-> FALSE, proxyFails |-> FALSE]
    /\ client = NewClient(opts)
    /\ newErr = "nil"
    /\ ctorCalls = NoCtorCalls
    /\ stores = [s \in {"real", "mem"} |->
                   [data |-> IF s = "real" THEN "authorized" ELSE "",
                    read |-> FALSE, written |-> FALSE]]
    /\ pc = "connecting"
    /\ status = NoStatus
    /\ fCalls = 0
    /\ fErr = "none"
    /\ runResult = "nil"
    /\ ChainIdle
    /\ now = 0
    /\ bo = StartBackoff(opts.ReconnectTimeout, 0)
    /\ last = NoCall
    /\ conn = StartedConn
    /\ down = FALSE
    /\ RateIdle
    /\ WalkIdle
    /\ ExtIdle

CancelNext ==
    \/ ConnectOk /\ UNCHANGED <<bootVars, chainVars, rateVars, walkVars, extVars>>
    \/ DialFails /\ UNCHANGED <<bootVars, chainVars, rateVars, walkVars, extVars>>
    \/ Reconnect /\ UNCHANGED <<bootVars, chainVars, rateVars, walkVars, extVars>>
    \/ BackoffTick /\ UNCHANGED <<bootVars, chainVars, rateVars, walkVars, extVars>>
    \/ ConnCanceled /\ UNCHANGED <<bootVars, chainVars, rateVars, walkVars, extVars>>
    \/ AuthCheck /\ UNCHANGED <<bootVars, boVars, rateVars, walkVars, extVars>>
    \/ AuthCheckReturns /\ UNCHANGED <<bootVars, chainVars, rateVars, walkVars, extVars>>
    \/ StageCall /\ UNCHANGED <<bootVars, boVars, rateVars, walkVars, extVars>>
    \/ AuthCheckAnswer /\ UNCHANGED <<bootVars, boVars, rateVars, walkVars, extVars>>
    \/ AuthCheckCrash /\ UNCHANGED <<bootVars, boVars, rateVars, walkVars, extVars>>
    \/ StageReturn /\ UNCHANGED <<bootVars, boVars, rateVars, walkVars, extVars>>
    \/ TimerTick /\ UNCHANGED <<bootVars, boVars, rateVars, walkVars, extVars>>
    \/ FloodWaitWake /\ UNCHANGED <<bootVars, boVars, rateVars, walkVars, extVars>>
    \/ RecoveryWake /\ UNCHANGED <<bootVars, boVars, rateVars, walkVars, extVars>>
    \/ RecoveryTick /\ UNCHANGED <<bootVars, chainVars, rateVars, walkVars, extVars>>
    \/ Return /\ UNCHANGED <<bootVars, boVars, rateVars, walkVars, extVars>>
    \/ Cancel /\ UNCHANGED <<bootVars, boVars, rateVars, walkVars, extVars>>
    \/ RpcCanceled /\ UNCHANGED <<bootVars, boVars, rateVars, walkVars, extVars>>

\* the goroutines of the run are scheduled: a call or a wait whose context is
\* done returns, and a stage or the callback that got its answer goes on
CancelFairness ==
    /\ WF_vars(ConnCanceled /\ UNCHANGED <<bootVars, chainVars, rateVars, walkVars, extVars>>)
    /\ WF_vars(RpcCanceled /\ UNCHANGED <<bootVars, boVars, rateVars, walkVars, extVars>>)
    /\ WF_vars(StageReturn /\ UNCHANGED <<bootVars, boVars, rateVars, walkVars, extVars>>)
    /\ WF_vars(Return /\ UNCHANGED <<bootVars, boVars, rateVars, walkVars, extVars>>)
    /\ WF_vars(AuthCheckReturns /\ UNCHANGED <<bootVars, chainVars, rateVars, walkVars, extVars>>)

SpecCancel == CancelInit /\ [][CancelNext]_vars /\ CancelFairness

\* the backoff alone: NextBackOff calls and the passing of time
BackoffInit ==
    /\ opts \in {o \in OptionsSet :
                   o.NTP = "" /\ o.Proxy = "" /\ o.Test = "" /\ o.Middlewares = <<>>}
    /\ env = [ntpFails |-> FALSE, proxyFails |-> FALSE]
    /\ client = NewClient(opts)
    /\ newErr = "nil"
    /\ ctorCalls = NoCtorCalls
    /\ stores = [s \in {"real", "mem"} |->
                   [data |-> IF s = "real" THEN "authorized" ELSE "",
                    read |-> FALSE, written |-> FALSE]]
    /\ pc = "built"
    /\ status = NoStatus
    /\ fCalls = 0
    /\ fErr = "none"
    /\ runResult = "nil"
    /\ ChainIdle
    /\ now = 0
    /\ bo = StartBackoff(opts.ReconnectTimeout, 0)
    /\ last = NoCall
    /\ conn = NoConn
    /\ down = FALSE
    /\ RateIdle
    /\ WalkIdle
    /\ ExtIdle

BackoffNext ==
    \/ NextBackOff /\ UNCHANGED <<bootVars, chainVars, rateVars, walkVars, extVars>>
    \/ Tick /\ UNCHANGED <<bootVars, chainVars, rateVars, walkVars, extVars>>

SpecBackoff == BackoffInit /\ [][BackoffNext]_vars

\* a run of client.Run: connection attempts, failures, backoff sleeps
ReconnectInit ==
    /\ opts \in {o \in OptionsSet :
                   o.NTP = "" /\ o.Proxy = "" /\ o.Test = "" /\ o.Middlewares = <<>>}
    /\ env = [ntpFails |-> FALSE, proxyFails |-> FALSE]
    /\ client = NewClient(opts)
    /\ newErr = "nil"
    /\ ctorCalls = NoCtorCalls
    /\ stores = [s \in {"real", "mem"} |->
                   [data |-> IF s = "real" THEN "authorized" ELSE "",
                    read |-> FALSE, written |-> FALSE]]
    /\ pc = "connecting"
    /\ status = NoStatus
    /\ fCalls = 0
    /\ fErr = "none"
    /\ runResult = "nil"
    /\ ChainIdle
    /\ now = 0
    /\ bo = StartBackoff(opts.ReconnectTimeout, 0)
    /\ last = NoCall
    /\ conn = StartedConn
    /\ down = FALSE
    /\ RateIdle
    /\ WalkIdle
    /\ ExtIdle

ReconnectNext ==
    \/ ConnectOk /\ UNCHANGED <<bootVars, chainVars, rateVars, walkVars, extVars>>
    \/ Glitch /\ UNCHANGED <<bootVars, chainVars, rateVars, walkVars, extVars>>
    \/ FailDown /\ UNCHANGED <<bootVars, chainVars, rateVars, walkVars, extVars>>
    \/ TransportDown /\ UNCHANGED <<bootVars, chainVars, rateVars, walkVars, extVars>>
    \/ Reconnect /\ UNCHANGED <<bootVars, chainVars, rateVars, walkVars, extVars>>
    \/ CallbackDone /\ UNCHANGED <<bootVars, chainVars, rateVars, walkVars, extVars>>
    \/ Tick /\ UNCHANGED <<bootVars, chainVars, rateVars, walkVars, extVars>>

\* the loop's goroutine is scheduled, its timers fire and time passes
ReconnectFairness ==
    /\ WF_vars(FailDown /\ UNCHANGED <<bootVars, chainVars, rateVars, walkVars, extVars>>)
    /\ WF_vars(Reconnect /\ UNCHANGED <<bootVars, chainVars, rateVars, walkVars, extVars>>)
    /\ WF_vars(Tick /\ UNCHANGED <<bootVars, chainVars, rateVars, walkVars, extVars>>)

SpecReconnect == ReconnectInit /\ [][ReconnectNext]_vars /\ ReconnectFairness

\* calls arriving concurrently at the rate-limit stage of a test-mode client
RateInit ==
    /\ opts \in {o \in OptionsSet :
                   /\ o.NTP = "" /\ o.Proxy = "" /\ o.Test # ""
                   /\ o.Middlewares = <<>> /\ o.ReconnectTimeout = 0}
    /\ env = [ntpFails |-> FALSE, proxyFails |-> FALSE]
    /\ client = NewClient(opts)
    /\ newErr = "nil"
    /\ ctorCalls = NoCtorCalls
    /\ stores = SeedMemory([s \in {"real", "mem"} |->
                               [data |-> IF s = "real" THEN "authorized" ELSE "",
                                read |-> FALSE, written |-> FALSE]], opts)
    /\ pc = "built"
    /\ status = NoStatus
    /\ fCalls = 0
    /\ fErr = "none"
    /\ runResult = "nil"
    /\ ChainIdle
    /\ now = 0
    /\ bo = StartBackoff(0, 0)
    /\ last = NoCall
    /\ conn = NoConn
    /\ down = FALSE
    /\ lim = NewLimiter
    /\ calls = [c \in 1..MaxCalls |-> NoCallState]
    /\ sent = [t \in {k * HalfPeriod : k \in 0..MaxHalfPeriods} |-> 0]
    /\ WalkIdle
    /\ ExtIdle

RateNext ==
    \/ \E c \in DOMAIN calls : RateArrive(c) /\ UNCHANGED <<bootVars, chainVars, bo, last, conn, down, walkVars, extVars>>
    \/ \E c \in DOMAIN calls : RateLock(c) /\ UNCHANGED <<bootVars, chainVars, bo, last, conn, down, walkVars, extVars>>
    \/ \E c \in DOMAIN calls : RateAdvance(c) /\ UNCHANGED <<bootVars, chainVars, bo, last, conn, down, walkVars, extVars>>
    \/ \E c \in DOMAIN calls : RateCommit(c) /\ UNCHANGED <<bootVars, chainVars, bo, last, conn, down, walkVars, extVars>>
    \/ \E c \in DOMAIN calls : RateFire(c) /\ UNCHANGED <<bootVars, chainVars, bo, last, conn, down, walkVars, extVars>>
    \/ RateTick /\ UNCHANGED <<bootVars, chainVars, bo, last, conn, down, walkVars, extVars>>

SpecRate == RateInit /\ [][RateNext]_vars

\* ---- SpecWalk: walk over every tree, root list and filter lists of the model
\* no client is built and none is asked for
BootIdle ==
    /\ opts = [NTP |-> "", Proxy |-> "", Test |-> "", Middlewares |-> <<>>,
               ReconnectTimeout |-> 0, Session |-> "real"]
    /\ env = [ntpFails |-> FALSE, proxyFails |-> FALSE]
    /\ client = NoClient
    /\ newErr = "nil"
    /\ ctorCalls = NoCtorCalls
    /\ stores = [s \in {"real", "mem"} |->
                   [data |-> IF s = "real" THEN "authorized" ELSE "",
                    read |-> FALSE, written |-> FALSE]]
    /\ pc = "init"
    /\ status = NoStatus
    /\ fCalls = 0
    /\ fErr = "none"
    /\ runResult = "nil"

WalkInit ==
    /\ BootIdle
    /\ ChainIdle
    /\ BackoffIdle
    /\ RateIdle
    /\ ExtIdle
    /\ walkIn \in [paths : RootLists, includes : IncludeLists, excludes : ExcludeLists,
                   listing : Listings, unreadable : BOOLEAN]
    /\ walkOut = NoWalkOut

WalkNext == walk /\ UNCHANGED <<bootVars, chainVars, boVars, rateVars, extVars>>

SpecWalk == WalkInit /\ [][WalkNext]_vars

\* ---- SpecExt: one extension command on every manager of the model
ExtInit ==
    /\ BootIdle
    /\ ChainIdle
    /\ BackoffIdle
    /\ RateIdle
    /\ WalkIdle
    /\ extRes = NoExtRes
    /\ \/ /\ extCall \in [op : {"Install"}, target : InstallTargets, force : BOOLEAN]
          /\ em \in [exts : ExtLists, listFails : {FALSE}, dryRun : {FALSE},
                     install : {"nil", "error"}, upgrade : {AllNil}, remove : {AllNil}]
       \/ /\ extCall \in [op : {"Upgrade"}, target : NameArgs, force : {FALSE}]
          /\ em \in [exts : ExtLists, listFails : BOOLEAN, dryRun : BOOLEAN,
                     install : {"nil"}, upgrade : [ExtNames -> UpgradeOutcomes],
                     remove : {AllNil}]
       \/ /\ extCall \in [op : {"Remove"}, target : NameArgs, force : {FALSE}]
          /\ em \in [exts : ExtLists, listFails : BOOLEAN, dryRun : {FALSE},
                     install : {"nil"}, upgrade : {AllNil},
                     remove : [ExtNames -> {"nil", "error"}]]

ExtNext ==
    \/ Install /\ UNCHANGED <<bootVars, chainVars, boVars, rateVars, walkVars>>
    \/ Upgrade /\ UNCHANGED <<bootVars, chainVars, boVars, rateVars, walkVars>>
    \/ Remove /\ UNCHANGED <<bootVars, chainVars, boVars, rateVars, walkVars>>

SpecExt == ExtInit /\ [][ExtNext]_vars

----------------------------------------------------------------------------
(* Claims about New and RunWithAuth, checked under Spec *)

C2_TestSessionOverrides ==
    (client # NoClient /\ opts.Test # "") =>
        /\ client.SessionStorage = "mem"
        /\ stores["mem"].data = opts.Test
        /\ ~stores["real"].read /\ ~stores["real"].written
        /\ \E i \in 1..Len(client.Middlewares) :
             client.Middlewares[i] = [kind |-> "ratelimit", every |-> 100, burst |-> 5]

C2_Witness ==
    /\ opts.Test # ""
    /\ pc = "done"
    /\ stores["mem"].read /\ stores["mem"].written
    /\ status.checked

\* C3: in the chain New builds the recovery stage is first (outermost), the
\* retry stage second and the flood-wait stage third, the caller's extra
\* stages follow in their order, and the rate-limit stage, when present, is last.
C3_ChainOrder ==
    client # NoClient =>
        LET ch == client.Middlewares
            n == Len(opts.Middlewares)
        IN /\ Len(ch) = 3 + n + (IF opts.Test # "" THEN 1 ELSE 0)
           /\ Kinds(SubSeq(ch, 1, 3)) = <<"recovery", "retry", "floodwait">>
           /\ SubSeq(ch, 4, 3 + n) = opts.Middlewares
           /\ PosOf(ch, "recovery") = {1}
           /\ PosOf(ch, "retry") = {2}
           /\ PosOf(ch, "floodwait") = {3}
           /\ \A i \in PosOf(ch, "extra") \cup PosOf(ch, "ratelimit") : i > 3
           /\ \A i \in PosOf(ch, "ratelimit") : i = Len(ch)

C3_Witness ==
    /\ client # NoClient
    /\ Len(opts.Middlewares) = 2
    /\ opts.Test # ""
    /\ Len(client.Middlewares) = 6

C12_NewFailsAtConstruction ==
    pc # "init" =>
        /\ ((opts.NTP # "" /\ env.ntpFails) \/ (opts.Proxy # "" /\ env.proxyFails))
              => /\ newErr # "nil"
                 /\ client = NoClient
                 /\ pc = "newFailed"
                 /\ (opts.NTP # "" /\ env.ntpFails) => ctorCalls = [ntp |-> 1, proxy |-> 0]
                 /\ fCalls = 0
                 /\ \A st \in DOMAIN stores : ~stores[st].read /\ ~stores[st].written
        /\ ctorCalls.ntp <= 1 /\ ctorCalls.proxy <= 1
        /\ opts.NTP = "" =>
              /\ ctorCalls.ntp = 0
              /\ newErr # "create network clock"
              /\ client # NoClient => client.Clock = "system"
        /\ opts.Proxy = "" =>
              /\ ctorCalls.proxy = 0
              /\ newErr # "get dialer"
              /\ client # NoClient => client.Dial = "direct"
        /\ (opts.NTP = "" /\ opts.Proxy = "") => (newErr = "nil" /\ client # NoClient)

C12_Witness ==
    /\ pc = "newFailed"
    /\ opts.NTP = "" /\ opts.Proxy # "" /\ env.ntpFails /\ env.proxyFails
    /\ newErr = "get dialer"
    /\ client = NoClient
    /\ ctorCalls = [ntp |-> 0, proxy |-> 1]

\* C14: a client New built has one session store, the caller's
\* Options.Session when Test is empty and the in-memory store when it is not,
\* and a run reads and writes that store and never the other one; the chain
\* holds one rate-limit stage when Test is non-empty and none when it is empty.
C14_OneStoreAndRateLimitIffTest ==
    client # NoClient =>
        LET active == client.SessionStorage
            other == IF active = "mem" THEN "real" ELSE "mem"
            limits == Cardinality(PosOf(client.Middlewares, "ratelimit"))
        IN /\ active \in {"real", "mem"}
           /\ opts.Test = "" => active = opts.Session
           /\ opts.Test # "" => active = "mem"
           /\ ~stores[other].read /\ ~stores[other].written
           /\ pc \in {"connected", "task"} => (stores[active].read /\ stores[active].written)
           /\ opts.Test = "" => limits = 0
           /\ opts.Test # "" => limits = 1

C14_Witness ==
    /\ opts.Test = ""
    /\ pc = "done"
    /\ fCalls = 1
    /\ client.SessionStorage = "real"
    /\ stores["real"].read /\ stores["real"].written
    /\ PosOf(client.Middlewares, "ratelimit") = {}
    /\ Len(client.Middlewares) = 3 + Len(opts.Middlewares)

----------------------------------------------------------------------------
(* Claims about the retry and flood-wait stages, checked under SpecChain *)

Transients(k) == [i \in 1..k |-> "transient"]

\* C4: the retry stage never calls next more than 5 times for one RPC; an RPC
\* whose attempts 1..k fail with a transient error and whose attempt k+1
\* succeeds (k <= 4) ends in success after exactly k+1 attempts; the stage
\* gives up on transient failures only after the fifth one.
C4_RetryBudget ==
    /\ hist.attempts <= 5
    /\ \A k \in 0..4 :
         (rpc = "done" /\ hist.seen = Transients(k) \o <<"nil">>)
            => (rpcResult = NilErr /\ hist.attempts = k + 1)
    /\ (rpc = "done" /\ hist.seen # <<>> /\ hist.seen[Len(hist.seen)] = "transient")
            => (hist.seen = Transients(5) /\ rpcResult.kind = "retry limit")

C4_Witness ==
    /\ rpc = "done"
    /\ rpcResult = NilErr
    /\ hist.seen = Transients(4) \o <<"nil">>
    /\ hist.attempts = 5

\* C5: once next returned a protocol-level rejection to the retry stage, the
\* stage makes no further attempt (a rejection on the first attempt leaves
\* exactly one attempt) and the RPC ends with the rejection.
C5_RejectionNotRetried ==
    \A i \in 1..Len(hist.seen) :
        hist.seen[i] = "rejected" =>
            /\ i = Len(hist.seen)
            /\ hist.attempts = i
            /\ hist.serverCalls = hist.attempts + hist.floodReissues
            /\ phase = "up"
            /\ ret.kind = "rejected"
            /\ rpc = "done" => rpcResult.kind = "rejected"

C5_Witness ==
    /\ rpc = "done"
    /\ hist.seen = <<"rejected">>
    /\ hist.attempts = 1
    /\ hist.serverCalls = 1
    /\ rpcResult.kind = "rejected"

\* C6: the flood-wait stage re-issues a call only after it slept at least the
\* wait W its signal carried, once per signal; no flood-wait signal reaches the
\* retry stage, whose counter moves only with the transient failures it saw.
C6_FloodWaitReissue ==
    /\ hist.floodReissues > 0 => hist.wokeAfter >= hist.wokeFor
    /\ hist.floodReissues = hist.floodSignals - (IF phase = "sleep" THEN 1 ELSE 0)
    /\ Count(hist.seen, "flood") = 0
    /\ hist.floodsSent - hist.floodSignals \in {0, 1}
    /\ retries = Count(hist.seen, "transient")
    /\ hist.attempts <= retries + 1
    /\ hist.serverCalls <= hist.attempts + hist.floodReissues

C6_Witness ==
    /\ rpc = "done"
    /\ rpcResult = NilErr
    /\ hist.floodSignals = 2
    /\ hist.floodReissues = 2
    /\ hist.wokeFor = 2
    /\ retries = 4
    /\ hist.attempts = 5
    /\ hist.serverCalls = 7

----------------------------------------------------------------------------
(* Claims about the recovery stage, checked under SpecRecover *)

----------------------------------------------------------------------------
(* Claims about cancellation, checked under SpecCancel *)

\* the run was cancelled while it was suspended in a dial, in the
\* authorization check's RPC, in a backoff wait or in a flood-wait sleep
CancelledWhileSuspended == ctxDone /\ hist.cancelAt # "none"

\* C15: once the caller's cancellation fired while the run was suspended in a
\* dial, the authorization check, a backoff wait or a flood-wait sleep, the
\* retry, flood-wait and recovery stages call next no more, no request reaches
\* the server, the connection loop starts no dial, the RPC in flight ends with
\* the context's error, and the run eventually returns.
C15_CancelUnwinds ==
    /\ [](CancelledWhileSuspended =>
             /\ hist.lateCalls = 0
             /\ conn.state # "task"
             /\ rpc = "done" => rpcResult.kind = "canceled"
             /\ conn.state = "closed" => conn.result = "nil")
    /\ [][CancelledWhileSuspended =>
             /\ hist'.attempts = hist.attempts
             /\ hist'.floodReissues = hist.floodReissues
             /\ rec'.recoveries = rec.recoveries
             /\ hist'.serverCalls = hist.serverCalls
             /\ conn'.attempts = conn.attempts
             /\ conn'.state = "connecting" => conn.state = "connecting"]_vars
    /\ CancelledWhileSuspended ~> (conn.state = "closed")

C15_Witness ==
    /\ hist.cancelAt = "flood-wait sleep"
    /\ conn.state = "closed"
    /\ conn.result = "nil"
    /\ rpcResult.kind = "canceled"
    /\ hist.seen = <<"transient", "canceled">>
    /\ hist.floodSignals = 1
    /\ hist.floodReissues = 0
    /\ hist.attempts = 2

----------------------------------------------------------------------------
(* Claims about the backoff, checked under SpecBackoff *)

\* C7 as stated: the intervals NextBackOff emits are non-decreasing and none
\* exceeds the ceiling of 10 s.
C7_EmittedMonotoneCapped ==
    (last.called /\ last.out # Stop) =>
        /\ last.out <= 10000
        /\ last.prev <= last.out

\* C7 as amended: the backoff's current interval (before randomization) is
\* non-decreasing and never exceeds 10 s; an emitted interval lies within 50%
\* of the current interval it was drawn from, so it never exceeds 15 s.
C7_IntervalMonotoneCapped ==
    /\ bo.currentInterval <= 10000
    /\ last.called =>
         /\ last.interval <= bo.currentInterval
         /\ last.out # Stop =>
              /\ 2 * last.out >= last.interval
              /\ 2 * last.out <= 3 * last.interval
              /\ last.out <= 15000

C7_Witness ==
    /\ last.called
    /\ last.interval = 10000
    /\ bo.currentInterval = 10000
    /\ last.out = 15000
    /\ last.prev = 5000

\* C8 as stated: for every budget, zero included, a NextBackOff call emits
\* Stop exactly when the elapsed time exceeds the budget, and every call after
\* a Stop emits Stop.
C8_StopExactlyAfterBudget ==
    last.called =>
        /\ (last.out = Stop) <=> (last.elapsed > opts.ReconnectTimeout)
        /\ last.afterStop => last.out = Stop

\* C8 as amended: with a zero budget NextBackOff never emits Stop; with a
\* non-zero budget every call made after the elapsed time exceeds the budget
\* emits Stop, and Stop is emitted only when the elapsed time plus the drawn
\* interval exceeds the budget.
C8_StopRule ==
    last.called =>
        /\ opts.ReconnectTimeout = 0 => last.out # Stop
        /\ (opts.ReconnectTimeout > 0 /\ last.elapsed > opts.ReconnectTimeout)
              => last.out = Stop
        /\ last.out = Stop =>
              /\ opts.ReconnectTimeout > 0
              /\ last.elapsed + last.drawn > opts.ReconnectTimeout

C8_Witness ==
    /\ last.called
    /\ opts.ReconnectTimeout = 3000
    /\ last.elapsed = 4000
    /\ last.out = Stop
    /\ last.afterStop

----------------------------------------------------------------------------
(* Claims about the reconnection loop, checked under SpecReconnect *)

\* C9 as stated: whatever the reconnection budget, once the transport keeps
\* failing the run eventually ends.
C9_RunEndsWhenDown ==
    down ~> (conn.state = "closed")

\* C9 as amended: with a non-zero ReconnectTimeout, once the transport keeps
\* failing the run eventually ends; a run ends with the connection error
\* exactly when the backoff answered Stop, which takes a non-zero budget; and
\* an ended run makes no further connection attempt.
C9_RunEndsWhenDownAndBudgeted ==
    /\ (down /\ opts.ReconnectTimeout > 0) ~> (conn.state = "closed")
    /\ [](conn.state = "closed" =>
             /\ (conn.result = "connection error") <=> (last.called /\ last.out = Stop)
             /\ conn.result = "connection error" => opts.ReconnectTimeout > 0)
    /\ [][conn.state = "closed" => conn' = conn]_vars

C9_Witness ==
    /\ conn.state = "closed"
    /\ conn.result = "connection error"
    /\ down
    /\ opts.ReconnectTimeout = 3000
    /\ conn.attempts >= 3

----------------------------------------------------------------------------
(* Claims about the rate-limit stage, checked under SpecRate *)

Instants == DOMAIN sent

\* the calls passed on in the 100 ms window that starts at instant t
SentInWindow(t) ==
    sent[t] + (IF t + 50 \in Instants THEN sent[t + 50] ELSE 0)

InCriticalSection == {c \in DOMAIN calls : calls[c].st \in {"locked", "advanced"}}

----------------------------------------------------------------------------
(* Claims about the upload walker, checked under SpecWalk *)

\* a path with its final extension replaced by the thumbnail extension
ReplacedExt(path) == SubSeq(path, 1, Len(path) - Len(Ext(path))) \o UploadThumbExt

\* C16: for every file walk emits, the companion thumbnail is the file's path
\* with its final extension replaced by the thumbnail extension, the rest of
\* the path unchanged; it is set exactly when that path exists, and is empty
\* otherwise.
C16_ThumbReplacesExtension ==
    walkOut.done =>
        \A i \in DOMAIN walkOut.files :
            LET f == walkOut.files[i]
            IN  f.thumb = IF ReplacedExt(f.file) \in Disk(walkIn)
                          THEN ReplacedExt(f.file)
                          ELSE <<>>

\* an extension is in a filter list, written there with or without its dot
Lists(list, ext) == \E i \in DOMAIN list : list[i] = ext \/ <<".">> \o list[i] = ext

ShouldEmit(path) ==
    /\ walkIn.includes = <<>> \/ Lists(walkIn.includes, Ext(path))
    /\ ~Lists(walkIn.excludes, Ext(path))
    /\ Ext(path) # UploadThumbExt

RECURSIVE AllVisits(_)
AllVisits(paths) ==
    IF paths = <<>> THEN <<>>
    ELSE VisitsOfRoot(walkIn, Head(paths)) \o AllVisits(Tail(paths))

\* C17: walk emits a non-directory file if and only if the include list is
\* empty or holds the file's extension, and the exclude list does not hold it,
\* and it is not the thumbnail extension (so a thumbnail is never emitted, and
\* an extension in both lists is excluded); the files come in the order of the
\* roots and then of the traversal; a traversal error on any root makes walk
\* return that error and no files.
C17_EmitsFilteredInOrder ==
    walkOut.done =>
        LET visits == AllVisits(walkIn.paths)
            Emit(v) == ~v.dir /\ ShouldEmit(v.path)
            expected == SelectSeq(visits, Emit)
            errs == {i \in DOMAIN visits : visits[i].err # "nil"}
        IN  IF errs # {}
            THEN /\ walkOut.files = <<>>
                 /\ walkOut.err = visits[CHOOSE i \in errs : \A j \in errs : i <= j].err
            ELSE /\ walkOut.err = "nil"
                 /\ [i \in DOMAIN walkOut.files |-> walkOut.files[i].file]
                        = [i \in DOMAIN expected |-> expected[i].path]

\* two roots walked without error, a picture and a thumbnail in the directory,
\* both extensions included: the picture is emitted once per root, the
\* thumbnail never
C17_Witness ==
    /\ walkOut.done
    /\ walkOut.err = "nil"
    /\ walkIn.paths = <<RootDir, RootDir>>
    /\ walkIn.includes = <<Jpg, Thumb>>
    /\ walkIn.listing = <<2, 3>>
    /\ Len(walkOut.files) = 2

----------------------------------------------------------------------------
(* Claims about the extension commands, checked under SpecExt *)

\* C18: Install returns nil for every target and force flag, whether the
\* manager's install succeeds or fails; a failed install shows only as a
\* printed failure message, never in the returned error.
C18_InstallFailSoft ==
    (extCall.op = "Install" /\ extRes.done) =>
        /\ extRes.err = "nil"
        /\ extRes.calls = << Called("Install", extCall.target, extCall.force) >>
        /\ (em.install # "nil") <=> (\E i \in DOMAIN extRes.out : extRes.out[i].level = "fail")

\* a forced install that the manager failed, returned as nil
C18_Witness ==
    /\ extCall.op = "Install"
    /\ extCall.force
    /\ extRes.done
    /\ em.install = "error"
    /\ extRes.err = "nil"

\* a name without the extension prefix in front of it
Stripped(name) ==
    IF Len(name) >= Len(Prefix) /\ \A i \in DOMAIN Prefix : name[i] = Prefix[i]
    THEN SubSeq(name, Len(Prefix) + 1, Len(name))
    ELSE name

\* the names the command called the manager's fn on, in order
NamesCalled(fn) ==
    LET Is(c) == c.fn = fn
        made == SelectSeq(extRes.calls, Is)
    IN  [i \in DOMAIN made |-> made[i].name]

\* C19: Remove calls the manager's remove on at most one extension, the first
\* listed one whose name equals the target without the prefix; it returns "no
\* extension matched" if and only if listing succeeded and no listed extension
\* has that name; when the manager's remove fails it returns nil; extensions
\* with other names are never removed.
C19_RemoveFirstMatch ==
    (extCall.op = "Remove" /\ extRes.done) =>
        LET removed == NamesCalled("Remove")
            t == Stripped(extCall.target)
            matches == {i \in DOMAIN extRes.listed : extRes.listed[i] = t}
        IN  /\ Len(removed) <= 1
            /\ Len(removed) = 1 <=> matches # {}
            /\ Len(removed) = 1 => removed[1] = t
            /\ (extRes.err = "no extension matched") <=> (~em.listFails /\ matches = {})
            /\ (Len(removed) = 1 /\ em.remove[t] # "nil") => extRes.err = "nil"
            /\ \A i \in DOMAIN extRes.listed :
                 extRes.listed[i] # t => \E j \in DOMAIN em.exts : em.exts[j] = extRes.listed[i]

\* the prefixed name of the second listed extension, whose removal the manager
\* fails: Remove returned nil and both extensions are still there
C19_Witness ==
    /\ extCall.op = "Remove"
    /\ extCall.target = Prefix \o <<"a">>
    /\ extRes.done
    /\ extRes.listed = << <<"b">>, <<"a">> >>
    /\ NamesCalled("Remove") = << <<"a">> >>
    /\ em.remove[<<"a">>] = "error"
    /\ extRes.err = "nil"
    /\ em.exts = extRes.listed

\* C20: Upgrade with an empty name attempts an upgrade of every listed
\* extension, and with a non-empty name only of the listed extensions whose
\* name equals it without the prefix; a failed upgrade never prevents the
\* attempts on the remaining ones; Upgrade returns an error only when listing
\* fails or the list is empty, so a non-empty name that matches no extension
\* returns nil with no upgrade attempted.
C20_UpgradeAttemptsNamed ==
    (extCall.op = "Upgrade" /\ extRes.done) =>
        LET name == extCall.target
            Named(e) == e = Stripped(name)
            expected == IF name = <<>> THEN extRes.listed
                        ELSE SelectSeq(extRes.listed, Named)
        IN  /\ NamesCalled("Upgrade") = expected
            /\ (extRes.err # "nil") <=> (em.listFails \/ em.exts = <<>>)

====
